---- MODULE Spec2Model ----
(***************************************************************************)
(* Model of the docs-embed tool of esp-docs: the synchronisation between   *)
(* ci.json (the manifest) and .gen/diagram.<target>.json (the diagrams),   *)
(* and the launchpad.toml generator (tool/wokwi_tool.py, cli.py).          *)
(*                                                                         *)
(* JSON objects are functions from strings to values (a record is such a   *)
(* function), JSON arrays are sequences, and the empty object and the      *)
(* empty array are both <<>>.  A file is [exists |-> FALSE] or             *)
(* [exists |-> TRUE, data |-> d].                                          *)
(***************************************************************************)
EXTENDS Integers, Sequences, FiniteSets, TLC

VARIABLES
    ci,          \* the file <base_path>/ci.json
    diagrams,    \* target -> the file <base_path>/.gen/diagram.<target>.json
    launchpad,   \* the file <base_path>/.gen/launchpad.toml
    log,         \* what the last command echoed
    status,      \* exit status of the last command: "ok" or "error"
    rt_pc,       \* position of the generate/extract round trip
    rt_target,   \* its target
    rt_override, \* its manifest override
    rt_diagram,  \* result of create_default_diagram + generate_diagram's merge
    rt_result,   \* the override extracted from rt_diagram
    tb_pc,       \* position of the tab directive being processed
    tb_in,       \* the directive: its composer, child blocks and options
    tb_out,      \* what the directive's run() returned
    tb_serial,   \* the document's "wokwi-tabs" serial number counter
    tb_doc       \* what the directives of the document returned so far

vars == <<ci, diagrams, launchpad, log, status,
          rt_pc, rt_target, rt_override, rt_diagram, rt_result,
          tb_pc, tb_in, tb_out, tb_serial, tb_doc>>

fsVars == <<ci, diagrams, launchpad, log, status>>
rtVars == <<rt_pc, rt_target, rt_override, rt_diagram, rt_result>>
tabVars == <<tb_pc, tb_in, tb_out, tb_serial, tb_doc>>

\* No tab directive is being processed.
TabsIdle ==
    /\ tb_pc = "idle" /\ tb_in = <<>> /\ tb_out = <<>> /\ tb_serial = 0
    /\ tb_doc = <<>>

----------------------------------------------------------------------------
(* Bounds of the model *)

\* longest list of author parts, and of author connections, of an override
MaxLen == 2
\* number of distinct targets a project touches (diagram files and manifest)
MaxTargets == 2
\* author parts a diagram is edited to hold by hand
MaxAuthorParts == 1
\* connections of a persisted diagram
MaxConnections == 4

----------------------------------------------------------------------------
(* Python values *)

EmptyDict == <<>>
NoFile == [exists |-> FALSE]
File(d) == [exists |-> TRUE, data |-> d]

\* dict.get(k, default)
Get(d, k, default) == IF k \in DOMAIN d THEN d[k] ELSE default
\* d[k] = v
Put(d, k, v) == [x \in (DOMAIN d) \cup {k} |-> IF x = k THEN v ELSE d[x]]
\* truth value of a list or a dict
Truthy(x) == x # <<>>
\* str.startswith
StartsWith(s, prefix) ==
    Len(s) >= Len(prefix) /\ SubSeq(s, 1, Len(prefix)) = prefix
\* x in list
InList(x, list) == \E i \in 1..Len(list) : list[i] = x
\* list[:n]
Take(list, n) == SubSeq(list, 1, IF Len(list) < n THEN Len(list) ELSE n)
ToSet(list) == {list[i] : i \in 1..Len(list)}

----------------------------------------------------------------------------
(* wokwi_tool.py: the board table and the constants of DiagramSync *)

target_to_boards ==
    ("esp32" :> "board-esp32-devkit-c-v4") @@
    ("esp32c3" :> "board-esp32-c3-devkitm-1") @@
    ("esp32c6" :> "board-esp32-c6-devkitc-1") @@
    ("esp32h2" :> "board-esp32-h2-devkitm-1") @@
    ("esp32p4" :> "board-esp32-p4-function-ev") @@
    ("esp32s2" :> "board-esp32-s2-devkitm-1") @@
    ("esp32s3" :> "board-esp32-s3-devkitc-1")

serial_connections ==
    << <<"esp:RX", "$serialMonitor:TX", "", <<>> >>,
       <<"esp:TX", "$serialMonitor:RX", "", <<>> >> >>

default_diagram_config ==
    [version |-> 1, author |-> "Espressif Systems", editor |-> "wokwi",
     parts |-> <<>>, dependencies |-> EmptyDict]

----------------------------------------------------------------------------
(* Data Processing *)

is_serial_connection(connection) ==
    \E i \in 1..Len(serial_connections) :
        Take(connection, 3) = Take(serial_connections[i], 3)

IsBoardPart(part) == StartsWith(Get(part, "type", ""), "board-")

filter_parts(parts) == SelectSeq(parts, LAMBDA part : ~IsBoardPart(part))

filter_connections(connections) ==
    SelectSeq(connections, LAMBDA conn : ~is_serial_connection(conn))

----------------------------------------------------------------------------
(* Diagram Generation *)

\* the pins of the serial wiring: <<rx_pin, tx_pin>>
SerialPins_noSpecialCase(platform) == <<"RX", "TX">>

SerialPins_swapped(platform) ==
    IF platform = "esp32p4" THEN <<"37", "38">> ELSE <<"RX", "TX">>

SerialPins(platform) ==
    IF platform = "esp32p4" THEN <<"38", "37">> ELSE <<"RX", "TX">>

\* a board for every platform, known to the table or not
create_default_diagram_anyBoard(platform) ==
    [ok |-> TRUE,
     diagram |-> Put(Put(default_diagram_config, "connections",
                         << <<"esp:TX", "$serialMonitor:RX", "", <<>> >>,
                            <<"esp:RX", "$serialMonitor:TX", "", <<>> >> >>),
                     "parts",
                     << [type |-> "board-" \o platform, id |-> "esp",
                         top |-> 0, left |-> 0, attrs |-> EmptyDict] >>)]

\* [ok |-> FALSE] stands for the ValueError of an unknown platform
create_default_diagram(platform) ==
    LET rx_pin == SerialPins(platform)[1]
        tx_pin == SerialPins(platform)[2]
        diagram == Put(default_diagram_config, "connections",
                       << <<"esp:" \o tx_pin, "$serialMonitor:RX", "", <<>> >>,
                          <<"esp:" \o rx_pin, "$serialMonitor:TX", "", <<>> >> >>)
    IN  IF platform \notin DOMAIN target_to_boards
        THEN [ok |-> FALSE]
        ELSE [ok |-> TRUE,
              diagram |-> Put(diagram, "parts",
                  << [type |-> target_to_boards[platform], id |-> "esp",
                      top |-> 0, left |-> 0, attrs |-> EmptyDict] >>)]

\* generate_diagram, lines 265-276: the manifest's override merged into the
\* default diagram
MergeOverride(diagram_data, platform_diagram) ==
    LET platform_parts == Get(platform_diagram, "parts", <<>>)
        platform_connections == Get(platform_diagram, "connections", <<>>)
        platform_dependencies == Get(platform_diagram, "dependencies", EmptyDict)
        d1 == IF Truthy(platform_parts)
              THEN Put(diagram_data, "parts",
                       diagram_data["parts"] \o platform_parts)
              ELSE diagram_data
        d2 == IF Truthy(platform_connections)
              THEN Put(d1, "connections",
                       Get(d1, "connections", <<>>) \o platform_connections)
              ELSE d1
    IN  IF Truthy(platform_dependencies)
        THEN Put(d2, "dependencies", platform_dependencies)
        ELSE d2

\* generate_ci_from_diagram, lines 205-207: what is left of a diagram
ExtractOverride(diagram_data) ==
    [parts |-> filter_parts(Get(diagram_data, "parts", <<>>)),
     connections |-> filter_connections(Get(diagram_data, "connections", <<>>)),
     dependencies |-> Get(diagram_data, "dependencies", EmptyDict)]

\* generate_ci_from_diagram, line 210
IsEmptyOverride(o) ==
    ~Truthy(o.parts) /\ ~Truthy(o.connections) /\ ~Truthy(o.dependencies)

\* generate_ci_from_diagram, lines 214-221: the entry stored for a platform
PlatformDiagram(o) ==
    LET platform_diagram == [parts |-> o.parts, connections |-> o.connections]
    IN  IF Truthy(o.dependencies)
        THEN Put(platform_diagram, "dependencies", o.dependencies)
        ELSE platform_diagram

----------------------------------------------------------------------------
(* Inputs *)

\* the targets of the board table, and one the table does not know
AllTargets == (DOMAIN target_to_boards) \cup {"arduino-uno"}

\* the targets the projects of the file-system specification work on
ProjectTargets == {"esp32", "esp32p4", "arduino-uno"}

Led == [type |-> "wokwi-led", id |-> "led1", top |-> 10, left |-> 20,
        attrs |-> ("color" :> "red")]
Button == [type |-> "wokwi-pushbutton", id |-> "btn1", top |-> 0, left |-> 0,
           attrs |-> EmptyDict]
AuthorParts == {Led, Button}

LedWire == <<"esp:2", "led1:A", "green", <<>> >>
\* a hand-drawn (coloured) wire to the serial monitor
GreenSerialWire == <<"esp:TX", "$serialMonitor:RX", "green", <<"v10">> >>
AuthorConnections == {LedWire, GreenSerialWire}

SomeDependencies == ("wokwi-lib" :> "1.0.0")
AuthorDependencies == {EmptyDict, SomeDependencies}

SeqsUpTo(S, n) == UNION {[1..k -> S] : k \in 0..n}

\* the overrides of a manifest: absent, or holding the three keys
Overrides ==
    {EmptyDict} \cup
    {[parts |-> p, connections |-> c, dependencies |-> d] :
        p \in SeqsUpTo(AuthorParts, MaxLen),
        c \in SeqsUpTo(AuthorConnections, MaxLen),
        d \in AuthorDependencies}

----------------------------------------------------------------------------
(* The round trip generate -> extract of one target and one override *)

RtIdle ==
    /\ rt_pc = "idle" /\ rt_target = "" /\ rt_override = EmptyDict
    /\ rt_diagram = EmptyDict /\ rt_result = EmptyDict

FsIdle ==
    /\ ci = NoFile
    /\ diagrams = [t \in ProjectTargets |-> NoFile]
    /\ launchpad = NoFile
    /\ log = <<>> /\ status = "ok"

InitGen ==
    /\ FsIdle
    /\ rt_pc = "start"
    /\ rt_target \in AllTargets
    /\ rt_override \in Overrides
    /\ rt_diagram = EmptyDict
    /\ rt_result = EmptyDict
    /\ TabsIdle

\* generate_diagram without its file: the default diagram plus the override
RtGenerate ==
    /\ rt_pc = "start"
    /\ LET r == create_default_diagram(rt_target)
       IN  IF r.ok
           THEN /\ rt_diagram' = MergeOverride(r.diagram, rt_override)
                /\ rt_pc' = "generated"
           ELSE /\ rt_diagram' = rt_diagram
                /\ rt_pc' = "unknown-target"
    /\ UNCHANGED <<rt_target, rt_override, rt_result>>
    /\ UNCHANGED fsVars
    /\ UNCHANGED tabVars

\* generate_ci_from_diagram's body for one diagram: the entry it stores, or
\* no entry (EmptyDict) when nothing is left
RtExtract ==
    /\ rt_pc = "generated"
    /\ LET o == ExtractOverride(rt_diagram)
       IN  rt_result' = IF IsEmptyOverride(o) THEN EmptyDict
                        ELSE PlatformDiagram(o)
    /\ rt_pc' = "extracted"
    /\ UNCHANGED <<rt_target, rt_override, rt_diagram>>
    /\ UNCHANGED fsVars
    /\ UNCHANGED tabVars

NextGen == RtGenerate \/ RtExtract

SpecGen == InitGen /\ [][NextGen]_vars

----------------------------------------------------------------------------
(* Strings *)

LowerChars == <<"a","b","c","d","e","f","g","h","i","j","k","l","m",
                "n","o","p","q","r","s","t","u","v","w","x","y","z">>
UpperChars == <<"A","B","C","D","E","F","G","H","I","J","K","L","M",
                "N","O","P","Q","R","S","T","U","V","W","X","Y","Z">>

MapChar(c, from, to) ==
    IF \E i \in 1..Len(from) : from[i] = c
    THEN to[CHOOSE i \in 1..Len(from) : from[i] = c]
    ELSE c

RECURSIVE MapString(_, _, _)
MapString(s, from, to) ==
    IF Len(s) = 0 THEN ""
    ELSE MapChar(SubSeq(s, 1, 1), from, to)
             \o MapString(SubSeq(s, 2, Len(s)), from, to)

SameString(s) == s

\* str.upper, str.lower
Upper(s) == MapString(s, LowerChars, UpperChars)
Lower(s) == MapString(s, UpperChars, LowerChars)

\* str.rstrip('/')
RECURSIVE RStripSlash(_)
RStripSlash(s) ==
    IF Len(s) > 0 /\ SubSeq(s, Len(s), Len(s)) = "/"
    THEN RStripSlash(SubSeq(s, 1, Len(s) - 1))
    ELSE s

\* '\n'.join(lines) + '\n'
RECURSIVE JoinLines(_)
JoinLines(lines) ==
    IF Len(lines) = 0 THEN "\n"
    ELSE IF Len(lines) = 1 THEN lines[1] \o "\n"
    ELSE lines[1] \o "\n" \o JoinLines(Tail(lines))

----------------------------------------------------------------------------
(* Files *)

\* one line of the command's output
Echo(kind, what) == [kind |-> kind, what |-> what]

save_json(file, name, data, override) ==
    IF file.exists /\ ~override
    THEN [file |-> file, log |-> <<Echo("warning-exists", name)>>]
    ELSE [file |-> File(data), log |-> <<Echo("saved", name)>>]

\* the name of a platform's diagram file
DiagramFile(platform) == "diagram." \o platform \o ".json"

\* get_platforms_from_ci
get_platforms_from_ci(ci_file) ==
    IF ~ci_file.exists THEN <<>>
    ELSE Get(Get(ci_file.data, "upload-binary", EmptyDict), "targets", <<>>)

\* get_platforms_from_diagrams: the platforms with a diagram file; the order
\* of the directory listing is not fixed
ExistingDiagrams(dg) == {t \in DOMAIN dg : dg[t].exists /\ t # "default"}

IsListingOf(order, dg) ==
    /\ Len(order) = Cardinality(ExistingDiagrams(dg))
    /\ ToSet(order) = ExistingDiagrams(dg)

----------------------------------------------------------------------------
(* generate_diagram and the loops over it *)

\* the state of the diagram files afterwards, what was echoed, and whether
\* the ValueError of an unknown platform was raised
generate_diagram_noCheck(dg, platform, override, config_data) ==
    LET platform_diagram ==
            Get(Get(config_data, "diagram", EmptyDict), platform, EmptyDict)
        r == create_default_diagram(platform)
        saved == save_json(dg[platform], DiagramFile(platform),
                           MergeOverride(r.diagram, platform_diagram), TRUE)
    IN  IF ~r.ok
        THEN [diagrams |-> dg, log |-> <<>>, raised |-> TRUE]
        ELSE [diagrams |-> [dg EXCEPT ![platform] = saved.file],
              log |-> saved.log, raised |-> FALSE]

generate_diagram(dg, platform, override, config_data) ==
    LET platform_diagram ==
            Get(Get(config_data, "diagram", EmptyDict), platform, EmptyDict)
        r == create_default_diagram(platform)
        saved == save_json(dg[platform], DiagramFile(platform),
                           MergeOverride(r.diagram, platform_diagram), TRUE)
    IN  IF dg[platform].exists /\ ~override
        THEN [diagrams |-> dg,
              log |-> <<Echo("warning-exists", DiagramFile(platform))>>,
              raised |-> FALSE]
        ELSE IF ~r.ok
        THEN [diagrams |-> dg, log |-> <<>>, raised |-> TRUE]
        ELSE [diagrams |-> [dg EXCEPT ![platform] = saved.file],
              log |-> saved.log, raised |-> FALSE]

\* a loop that goes on with the next platform after an exception
RECURSIVE GenerateDiagrams_keepGoing(_, _, _, _, _)
GenerateDiagrams_keepGoing(dg, platforms, override, config_data, echoed) ==
    IF platforms = <<>>
    THEN [diagrams |-> dg, log |-> echoed, raised |-> FALSE]
    ELSE LET r == generate_diagram(dg, Head(platforms), override, config_data)
             rest == GenerateDiagrams_keepGoing(r.diagrams, Tail(platforms),
                         override, config_data, echoed \o r.log)
         IN  [diagrams |-> rest.diagrams, log |-> rest.log,
              raised |-> r.raised \/ rest.raised]

\* for plat in platforms: self.generate_diagram(plat, override, config_data);
\* an exception leaves the loop
RECURSIVE GenerateDiagrams(_, _, _, _, _)
GenerateDiagrams(dg, platforms, override, config_data, echoed) ==
    IF platforms = <<>>
    THEN [diagrams |-> dg, log |-> echoed, raised |-> FALSE]
    ELSE LET r == generate_diagram(dg, Head(platforms), override, config_data)
         IN  IF r.raised
             THEN [diagrams |-> r.diagrams, log |-> echoed \o r.log,
                   raised |-> TRUE]
             ELSE GenerateDiagrams(r.diagrams, Tail(platforms), override,
                                   config_data, echoed \o r.log)

----------------------------------------------------------------------------
(* generate_ci_from_diagram *)

\* lines 194-195
AddTarget_always(upload_binary, plat) ==
    Put(upload_binary, "targets", Append(upload_binary["targets"], plat))

AddTarget(upload_binary, plat) ==
    IF ~InList(plat, upload_binary["targets"])
    THEN Put(upload_binary, "targets", Append(upload_binary["targets"], plat))
    ELSE upload_binary

\* lines 205-224 for one platform whose diagram file exists
StoreOverride_noSkip(upload_binary, plat, diagram_data) ==
    LET o == ExtractOverride(diagram_data)
    IN  [upload_binary |->
             Put(upload_binary, "diagram",
                 Put(upload_binary["diagram"], plat, PlatformDiagram(o))),
         log |-> <<Echo("processed", plat)>>]

StoreOverride(upload_binary, plat, diagram_data) ==
    LET o == ExtractOverride(diagram_data)
    IN  IF IsEmptyOverride(o)
        THEN [upload_binary |-> upload_binary,
              log |-> <<Echo("skipping-empty", plat)>>]
        ELSE [upload_binary |->
                  Put(upload_binary, "diagram",
                      Put(upload_binary["diagram"], plat, PlatformDiagram(o))),
              log |-> <<Echo("processed", plat)>>]

\* the loop given up at the first platform without a diagram file
RECURSIVE CiLoop_stopAtMissing(_, _, _, _)
CiLoop_stopAtMissing(upload_binary, platforms, dg, echoed) ==
    IF platforms = <<>>
    THEN [upload_binary |-> upload_binary, log |-> echoed]
    ELSE LET plat == Head(platforms)
             ub == AddTarget(upload_binary, plat)
         IN  IF ~dg[plat].exists
             THEN [upload_binary |-> ub,
                   log |-> echoed \o <<Echo("warning-not-found", plat)>>]
             ELSE LET r == StoreOverride(ub, plat, dg[plat].data)
                  IN  CiLoop_stopAtMissing(r.upload_binary, Tail(platforms), dg,
                                           echoed \o r.log)

\* lines 192-226: the loop over the platforms
RECURSIVE CiLoop(_, _, _, _)
CiLoop(upload_binary, platforms, dg, echoed) ==
    IF platforms = <<>>
    THEN [upload_binary |-> upload_binary, log |-> echoed]
    ELSE LET plat == Head(platforms)
             ub == AddTarget(upload_binary, plat)
         IN  IF ~dg[plat].exists
             THEN CiLoop(ub, Tail(platforms), dg,
                         echoed \o <<Echo("warning-not-found", plat)>>)
             ELSE LET r == StoreOverride(ub, plat, dg[plat].data)
                  IN  CiLoop(r.upload_binary, Tail(platforms), dg,
                             echoed \o r.log)

\* lines 176-179
LoadCiData_fresh(ci_file) == EmptyDict

LoadCiData(ci_file) == IF ci_file.exists THEN ci_file.data ELSE EmptyDict

\* lines 175-230: the ci.json file afterwards, and what was echoed
CiFromDiagrams(ci_file, platforms, dg, override) ==
    LET ci_data == LoadCiData(ci_file)
        notice == IF ci_file.exists
                     /\ Truthy(Get(ci_data, "upload-binary", EmptyDict))
                     /\ ~override
                  THEN <<Echo("already-has-upload-binary", "ci.json")>>
                  ELSE <<>>
        ci_data1 == IF "upload-binary" \notin DOMAIN ci_data
                    THEN Put(ci_data, "upload-binary", EmptyDict)
                    ELSE ci_data
        ub0 == ci_data1["upload-binary"]
        ub1 == Put(ub0, "targets", Get(ub0, "targets", <<>>))
        ub2 == Put(ub1, "diagram", Get(ub1, "diagram", EmptyDict))
        r == CiLoop(ub2, platforms, dg, notice)
        saved == save_json(ci_file, "ci.json",
                           Put(ci_data1, "upload-binary", r.upload_binary), TRUE)
    IN  [file |-> saved.file, log |-> r.log \o saved.log]

----------------------------------------------------------------------------
(* generate_launchpad_config *)

\* a chipset label for every platform
platform_to_chipset_lenient(platform) ==
    [ok |-> TRUE, chipset |-> Upper(platform)]

\* [ok |-> FALSE] stands for the ValueError of an unknown platform
platform_to_chipset(platform) ==
    IF platform = "esp32"
    THEN [ok |-> TRUE, chipset |-> "ESP32"]
    ELSE IF StartsWith(platform, "esp32")
            /\ Len(SubSeq(platform, 6, Len(platform))) = 2
    THEN [ok |-> TRUE,
          chipset |-> "ESP32-" \o Upper(SubSeq(platform, 6, Len(platform)))]
    ELSE [ok |-> FALSE]

\* lines 329-333: one image line per platform
RECURSIVE ImageLines(_, _)
ImageLines(platforms, project_name) ==
    IF platforms = <<>> THEN <<>>
    ELSE LET lowercase_chipset == Lower(platform_to_chipset(Head(platforms)).chipset)
             binary_name == project_name \o "-" \o lowercase_chipset \o ".bin"
         IN  <<"image." \o lowercase_chipset \o " = \"" \o binary_name \o "\"">>
                 \o ImageLines(Tail(platforms), project_name)

\* str(Path): the components joined by "/"
RECURSIVE PathString(_)
PathString(path) ==
    IF Len(path) = 1 THEN path[1]
    ELSE path[1] \o "/" \o PathString(Tail(path))

\* the launchpad.toml file afterwards, what was echoed, and whether an
\* exception was raised
LaunchpadConfig(file, ci_file, base_path, storage_url_prefix0, repo_url_prefix0, override, readme_exists) ==
    LET project_name == base_path[Len(base_path)]
        storage_url_prefix == RStripSlash(storage_url_prefix0)
        repo_url_prefix == RStripSlash(repo_url_prefix0)
        ci_data == ci_file.data
        platforms == Get(Get(ci_data, "upload-binary", EmptyDict), "targets", <<>>)
        config_readme_url ==
            repo_url_prefix \o "/" \o PathString(base_path) \o "/README.md"
        description ==
            Get(Get(ci_data, "upload-binary", EmptyDict), "description", "")
        config_lines ==
            << "esp_toml_version = 1.0",
               "",
               "firmware_images_url = \"" \o storage_url_prefix \o "\"",
               "",
               "# Apps that you support and for which the binaries are available to publish.",
               "supported_apps = [\"" \o project_name \o "\"]",
               "" >>
            \o (IF readme_exists
                THEN <<"config_readme_url = \"" \o config_readme_url \o "\"">>
                ELSE <<>>)
            \o ImageLines(platforms, project_name)
            \o (IF description # ""
                THEN <<"description = \"" \o description \o "\"">>
                ELSE <<>>)
    IN  IF file.exists /\ ~override
        THEN [file |-> file, log |-> <<Echo("warning-exists", "launchpad.toml")>>,
              raised |-> FALSE]
        ELSE IF ~ci_file.exists
        THEN [file |-> file, log |-> <<Echo("error-not-found", "ci.json")>>,
              raised |-> FALSE]
        ELSE IF platforms = <<>>
        THEN [file |-> file, log |-> <<Echo("no-platforms", "ci.json")>>,
              raised |-> FALSE]
        ELSE IF \E i \in 1..Len(platforms) : ~platform_to_chipset(platforms[i]).ok
        THEN [file |-> file, log |-> <<>>, raised |-> TRUE]
        ELSE [file |-> File(JoinLines(config_lines)),
              log |-> (IF readme_exists THEN <<Echo("found-readme", "")>> ELSE <<>>)
                      \o (IF description # ""
                          THEN <<Echo("found-description", "")>> ELSE <<>>)
                      \o <<Echo("generated", "launchpad.toml")>>,
              raised |-> FALSE]

----------------------------------------------------------------------------
(* The project on disk: the commands of cli.py and the author's edits *)

\* --path of the command line
BasePath == <<"examples", "Blink">>
StoragePrefixes == {"https://storage.example/fw", "https://storage.example/fw/",
                    "https://storage.example/fw//"}
RepoPrefix == "https://repo.example/tree/main"

\* "" stands for an absent --platform (None): both are false in Python
NoPlatform == ""

Targets(ci_file) == get_platforms_from_ci(ci_file)
DiagramOverrides(ci_file) ==
    IF ~ci_file.exists THEN EmptyDict
    ELSE Get(Get(ci_file.data, "upload-binary", EmptyDict), "diagram", EmptyDict)

\* the targets the project has on disk
Touched ==
    ExistingDiagrams(diagrams) \cup ToSet(Targets(ci))
        \cup (DOMAIN DiagramOverrides(ci))

Fits(platforms) == Cardinality(Touched \cup platforms) <= MaxTargets

ConnectionsFit(dg) ==
    \A t \in ExistingDiagrams(dg) :
        Len(Get(dg[t].data, "connections", <<>>)) <= MaxConnections

\* lists of distinct targets
TargetLists ==
    {l \in SeqsUpTo(ProjectTargets, MaxTargets) :
        Len(l) >= 1 /\ Cardinality(ToSet(l)) = Len(l)}

\* --diagram/--no-diagram and --ci/--no-ci of init-project
InitFlags == {[diagram |-> TRUE, ci |-> FALSE], [diagram |-> FALSE, ci |-> TRUE], [diagram |-> TRUE, ci |-> TRUE]}

\* the manifests a project starts from: their overrides hold author content
InitOverrides ==
    { [parts |-> <<Led>>, connections |-> <<LedWire>>],
      [parts |-> <<>>, connections |-> <<>>, dependencies |-> SomeDependencies] }

InitManifests ==
    {NoFile, File(("fqbn_append" :> "PartitionScheme=huge_app"))}
    \cup {File(("upload-binary" :>
                   [targets |-> <<t>>, diagram |-> (t :> o),
                    description |-> "Blink demo"])
               @@ ("fqbn_append" :> "PartitionScheme=huge_app")) :
            t \in ProjectTargets, o \in InitOverrides}

Init ==
    /\ ci \in InitManifests
    /\ diagrams = [t \in ProjectTargets |-> NoFile]
    /\ launchpad = NoFile
    /\ log = <<>>
    /\ status = "ok"
    /\ RtIdle
    /\ TabsIdle

\* what cli.py echoes before and after a command, and for an exception
Banner(command) == Echo("command", command)
Completed(command) == Echo("completed", command)
ErrorEcho == Echo("error", "exception")

\* docs-embed init-project --platforms ... [--diagram] [--ci] [--override]
InitProject(platforms_list, diagram, ci_opt, override) ==
    /\ Fits(ToSet(platforms_list))
    /\ LET invalid == \E i \in 1..Len(platforms_list) :
                          platforms_list[i] \notin DOMAIN target_to_boards
           r == GenerateDiagrams(diagrams, platforms_list, override, EmptyDict,
                                 <<Banner("init-project")>>)
       IN  IF invalid
           THEN /\ diagrams' = diagrams
                /\ log' = <<Echo("invalid-platforms", "")>>
                /\ status' = "error"
           ELSE IF diagram
           THEN /\ ConnectionsFit(r.diagrams)
                /\ diagrams' = r.diagrams
                /\ log' = IF r.raised THEN r.log \o <<ErrorEcho>> ELSE r.log
                /\ status' = IF r.raised THEN "error" ELSE "ok"
           ELSE /\ diagrams' = diagrams
                /\ log' = <<Banner("init-project")>>
                /\ status' = "ok"
    /\ UNCHANGED <<ci, launchpad>>
    /\ UNCHANGED rtVars
    /\ UNCHANGED tabVars

\* docs-embed ci-from-diagram [--platform p] [--override]
CiFromDiagram(platform, override, listing) ==
    /\ Fits(IF platform # NoPlatform THEN {platform} ELSE {})
    /\ IsListingOf(listing, diagrams)
    /\ LET platforms == IF platform # NoPlatform THEN <<platform>> ELSE listing
           r == CiFromDiagrams(ci, platforms, diagrams, override)
       IN  IF platforms = <<>>
           THEN /\ ci' = ci
                /\ log' = <<Banner("ci-from-diagram"),
                            Echo("no-diagram-files", "")>>
           ELSE /\ ci' = r.file
                /\ log' = <<Banner("ci-from-diagram")>> \o r.log
    /\ status' = "ok"
    /\ UNCHANGED <<diagrams, launchpad>>
    /\ UNCHANGED rtVars
    /\ UNCHANGED tabVars

\* docs-embed diagram-from-ci [--platform p] [--override]
DiagramFromCi(platform, override) ==
    /\ Fits(IF platform # NoPlatform THEN {platform} ELSE {})
    /\ LET platforms == IF platform # NoPlatform THEN <<platform>>
                        ELSE get_platforms_from_ci(ci)
           r == GenerateDiagrams(diagrams, platforms, override,
                                 Get(ci.data, "upload-binary", EmptyDict),
                                 <<Banner("diagram-from-ci")>>)
       IN  IF platforms = <<>>
           THEN /\ diagrams' = diagrams
                /\ log' = <<Banner("diagram-from-ci"),
                            Echo("no-platforms", "ci.json"),
                            Completed("diagram-from-ci")>>
                /\ status' = "ok"
           ELSE IF ~ci.exists
           THEN /\ diagrams' = diagrams
                /\ log' = <<Banner("diagram-from-ci"),
                            Echo("error-not-found", "ci.json"),
                            Completed("diagram-from-ci")>>
                /\ status' = "ok"
           ELSE /\ ConnectionsFit(r.diagrams)
                /\ diagrams' = r.diagrams
                /\ log' = IF r.raised THEN r.log \o <<ErrorEcho>>
                          ELSE r.log \o <<Completed("diagram-from-ci")>>
                /\ status' = IF r.raised THEN "error" ELSE "ok"
    /\ UNCHANGED <<ci, launchpad>>
    /\ UNCHANGED rtVars
    /\ UNCHANGED tabVars

\* docs-embed launchpad-config STORAGE_URL_PREFIX --repo_url_prefix ... [--override]
LaunchpadConfigCmd(storage_url_prefix, override, readme_exists) ==
    /\ LET r == LaunchpadConfig(launchpad, ci, BasePath, storage_url_prefix,
                                RepoPrefix, override, readme_exists)
       IN  /\ launchpad' = r.file
           /\ log' = <<Banner("launchpad-config")>> \o r.log
                     \o (IF r.raised THEN <<ErrorEcho>>
                         ELSE <<Completed("launchpad-config")>>)
           /\ status' = IF r.raised THEN "error" ELSE "ok"
    /\ UNCHANGED <<ci, diagrams>>
    /\ UNCHANGED rtVars
    /\ UNCHANGED tabVars

AuthorParts_(data) == filter_parts(Get(data, "parts", <<>>))

\* the author adds a part to a diagram in the editor
AuthorAddPart(t, part) ==
    /\ diagrams[t].exists
    /\ Len(AuthorParts_(diagrams[t].data)) < MaxAuthorParts
    /\ diagrams' = [diagrams EXCEPT ![t] =
           File(Put(@.data, "parts", Append(Get(@.data, "parts", <<>>), part)))]
    /\ log' = <<>> /\ status' = "ok"
    /\ UNCHANGED <<ci, launchpad>>
    /\ UNCHANGED rtVars
    /\ UNCHANGED tabVars

Next ==
    \/ \E l \in TargetLists, f \in InitFlags, override \in BOOLEAN :
          InitProject(l, f.diagram, f.ci, override)
    \/ \E p \in ProjectTargets \cup {NoPlatform}, override \in BOOLEAN,
          listing \in SeqsUpTo(ProjectTargets, MaxTargets) :
          CiFromDiagram(p, override, listing)
    \/ \E p \in ProjectTargets \cup {NoPlatform}, override \in BOOLEAN :
          DiagramFromCi(p, override)
    \/ \E t \in ProjectTargets : AuthorAddPart(t, Led)

Spec == Init /\ [][Next]_vars

----------------------------------------------------------------------------
(* The launchpad.toml generator on its own, over the manifests it may read *)

LaunchpadManifests ==
    {NoFile, File(("fqbn_append" :> "PartitionScheme=huge_app"))}
    \cup {File(("upload-binary" :> [targets |-> l])) :
            l \in SeqsUpTo(AllTargets, MaxLen)}
    \cup {File(("upload-binary" :> [targets |-> l, description |-> "Blink demo"])) :
            l \in SeqsUpTo(AllTargets, MaxLen)}

\* a launchpad.toml left by an earlier run, over the manifest of that time
PriorLaunchpad ==
    LaunchpadConfig(NoFile, File(("upload-binary" :> [targets |-> <<"esp32h2">>])),
                    BasePath, "https://storage.example/old", RepoPrefix,
                    FALSE, FALSE).file

InitLaunchpad ==
    /\ ci \in LaunchpadManifests
    /\ diagrams = [t \in ProjectTargets |-> NoFile]
    /\ launchpad \in {NoFile, PriorLaunchpad}
    /\ log = <<>>
    /\ status = "ok"
    /\ RtIdle
    /\ TabsIdle

NextLaunchpad ==
    \E sp \in StoragePrefixes, override \in BOOLEAN, readme \in BOOLEAN :
        LaunchpadConfigCmd(sp, override, readme)

SpecLaunchpad == InitLaunchpad /\ [][NextLaunchpad]_vars

----------------------------------------------------------------------------
(* Vocabulary of the properties *)

\* the upload-binary section of a manifest file
UploadBinary(ci_file) ==
    IF ci_file.exists THEN Get(ci_file.data, "upload-binary", EmptyDict)
    ELSE EmptyDict

\* the manifest's keys outside the upload-binary section
OtherKeys(ci_file) ==
    IF ci_file.exists THEN (DOMAIN ci_file.data) \ {"upload-binary"} ELSE {}

IsPrefix(a, b) == Len(a) <= Len(b) /\ SubSeq(b, 1, Len(a)) = a
NoDuplicates(list) == Cardinality(ToSet(list)) = Len(list)
Echoed(lg, kind, what) == \E i \in 1..Len(lg) : lg[i] = Echo(kind, what)

\* the output of a ci-from-diagram run that wrote ci.json
CiRan(lg) ==
    /\ Len(lg) >= 2
    /\ lg[1] = Banner("ci-from-diagram")
    /\ lg[Len(lg)] = Echo("saved", "ci.json")

\* the platforms such a run went through: each echoes one line
CiProcessed(lg) ==
    {lg[i].what : i \in {j \in 1..Len(lg) :
        lg[j].kind \in {"processed", "skipping-empty", "warning-not-found"}}}

\* an override (absent, or its three keys) without content
IsEmptyInput(o) ==
    /\ ~Truthy(Get(o, "parts", <<>>))
    /\ ~Truthy(Get(o, "connections", <<>>))
    /\ ~Truthy(Get(o, "dependencies", EmptyDict))

HasAllContent(o) ==
    /\ Truthy(Get(o, "parts", <<>>))
    /\ Truthy(Get(o, "connections", <<>>))
    /\ Truthy(Get(o, "dependencies", EmptyDict))

EntryHasContent(o) == ~IsEmptyInput(o)

BoardParts(data) == SelectSeq(Get(data, "parts", <<>>), IsBoardPart)

\* the serial-monitor wiring of target t: the pins depend on the target
IsSerialWiringOf(t, conn) ==
    /\ create_default_diagram(t).ok
    /\ \E i \in 1..2 :
           Take(conn, 3) = Take(create_default_diagram(t).diagram["connections"][i], 3)

SerialWiring(t, data) ==
    SelectSeq(Get(data, "connections", <<>>), LAMBDA c : IsSerialWiringOf(t, c))

BoardTargets == DOMAIN target_to_boards

----------------------------------------------------------------------------
(* Properties of generate and extract (SpecGen) *)

\* C1: for every target of the board table and every override with author
\* parts, connections and dependencies, the override extracted from the
\* generated diagram is the override itself.
C1_RoundTrip ==
    (rt_pc = "extracted" /\ rt_target \in BoardTargets /\ HasAllContent(rt_override))
        => rt_result = rt_override

\* C3 as stated: for esp32p4 and an empty override the connections are
\* esp:38 -> $serialMonitor:RX, then esp:37 -> $serialMonitor:TX.
C3_P4Connections_AsStated ==
    (rt_pc = "generated" /\ rt_target = "esp32p4" /\ IsEmptyInput(rt_override))
        => rt_diagram["connections"] =
               << <<"esp:38", "$serialMonitor:RX", "", <<>> >>,
                  <<"esp:37", "$serialMonitor:TX", "", <<>> >> >>

\* C3 amended: for esp32p4 and an empty override the connections are
\* esp:37 (the TX pin) -> $serialMonitor:RX, then esp:38 (the RX pin) ->
\* $serialMonitor:TX, in that order.
C3_P4Connections ==
    (rt_pc = "generated" /\ rt_target = "esp32p4" /\ IsEmptyInput(rt_override))
        => rt_diagram["connections"] =
               << <<"esp:37", "$serialMonitor:RX", "", <<>> >>,
                  <<"esp:38", "$serialMonitor:TX", "", <<>> >> >>

C3_Witness ==
    rt_pc = "generated" /\ rt_target = "esp32p4" /\ rt_override = EmptyDict

\* C4: for every target of the board table, the diagram generated from an
\* empty override has exactly one part, of the board type of the table, and
\* exactly two connections, whose chip side uses pins 37 and 38 for esp32p4
\* and RX and TX for every other target.
C4_DefaultDiagram ==
    (rt_pc = "generated" /\ rt_target \in BoardTargets /\ IsEmptyInput(rt_override))
        => /\ Len(rt_diagram["parts"]) = 1
           /\ rt_diagram["parts"][1].type = target_to_boards[rt_target]
           /\ Len(rt_diagram["connections"]) = 2
           /\ {rt_diagram["connections"][i][1] : i \in 1..2} =
                  IF rt_target = "esp32p4" THEN {"esp:37", "esp:38"}
                  ELSE {"esp:RX", "esp:TX"}

C4_Witness ==
    /\ rt_pc = "generated" /\ rt_target = "esp32c6" /\ IsEmptyInput(rt_override)
    /\ rt_diagram["parts"][1].type = "board-esp32-c6-devkitc-1"

----------------------------------------------------------------------------
(* Properties of the synchronisation (Spec) *)

\* C2: every persisted diagram holds exactly one board part and exactly two
\* serial-monitor connections, after any sequence of sync passes.
C2_DiagramInvariant ==
    \A t \in ExistingDiagrams(diagrams) :
        /\ Len(BoardParts(diagrams[t].data)) = 1
        /\ Len(SerialWiring(t, diagrams[t].data)) = 2

\* C5: a ci-from-diagram pass over a board target whose diagram is the one
\* generated from an empty override puts the target in the manifest's targets
\* and adds no diagram entry for it.
C5_EmptyDiagramAddsNoEntry ==
    [][ \A t \in BoardTargets \cap ProjectTargets :
          ( /\ CiRan(log')
            /\ t \in CiProcessed(log')
            /\ diagrams[t] = File(create_default_diagram(t).diagram) )
          => /\ InList(t, Targets(ci'))
             /\ (t \in DOMAIN DiagramOverrides(ci')
                     => t \in DOMAIN DiagramOverrides(ci)) ]_vars

\* C6: every entry of the manifest's diagram overrides has a part, a
\* connection or a dependency: no empty override is stored.
C6_NoEmptyOverrideStored ==
    \A t \in DOMAIN DiagramOverrides(ci) :
        EntryHasContent(DiagramOverrides(ci)[t])

C6_Witness ==
    /\ CiRan(log)
    /\ \E t1, t2 \in ProjectTargets :
           /\ Echoed(log, "skipping-empty", t1)
           /\ Echoed(log, "processed", t2)
           /\ t1 \notin DOMAIN DiagramOverrides(ci)
           /\ t2 \in DOMAIN DiagramOverrides(ci)

\* C7: a ci-from-diagram pass leaves unchanged the diagram entries of the
\* targets it did not process, the targets already listed and their order,
\* the description, and the manifest's keys outside upload-binary.
C7_ManifestFrame ==
    [][ CiRan(log') =>
          /\ \A t \in (DOMAIN DiagramOverrides(ci)) \ CiProcessed(log') :
                 /\ t \in DOMAIN DiagramOverrides(ci')
                 /\ DiagramOverrides(ci')[t] = DiagramOverrides(ci)[t]
          /\ IsPrefix(Targets(ci), Targets(ci'))
          /\ ("description" \in DOMAIN UploadBinary(ci))
                 = ("description" \in DOMAIN UploadBinary(ci'))
          /\ ("description" \in DOMAIN UploadBinary(ci)
                 => UploadBinary(ci')["description"] = UploadBinary(ci)["description"])
          /\ OtherKeys(ci') = OtherKeys(ci)
          /\ \A k \in OtherKeys(ci) : ci'.data[k] = ci.data[k] ]_vars

C7_Witness ==
    /\ CiRan(log)
    /\ \E t1, t2 \in ProjectTargets :
           /\ t1 \in (DOMAIN DiagramOverrides(ci)) \ CiProcessed(log)
           /\ Echoed(log, "processed", t2)
    /\ "description" \in DOMAIN UploadBinary(ci)
    /\ OtherKeys(ci) # {}

\* C8: the manifest's targets never hold a duplicate; after a ci-from-diagram
\* pass they hold every processed target, and the targets listed before are
\* a prefix of them (a new target is appended after them).
C8_TargetsAppendOnly ==
    [][ /\ NoDuplicates(Targets(ci'))
        /\ CiRan(log') =>
              /\ CiProcessed(log') \subseteq ToSet(Targets(ci'))
              /\ IsPrefix(Targets(ci), Targets(ci')) ]_vars

C8_Witness ==
    /\ CiRan(log)
    /\ Len(Targets(ci)) = 2
    /\ Targets(ci)[1] \notin CiProcessed(log)
    /\ Targets(ci)[2] \in CiProcessed(log)

\* C9: no file-writing command changes an existing output file when the
\* overwrite flag is not set; it echoes a warning and raises nothing.
C9_NoOverwriteWithoutFlag ==
    [][ /\ \A p \in ProjectTargets \cup {NoPlatform},
             l \in SeqsUpTo(ProjectTargets, MaxTargets) :
             ( /\ CiFromDiagram(p, FALSE, l)
               /\ ci.exists
               /\ (p # NoPlatform \/ l # <<>>) )
             => ci' = ci /\ Echoed(log', "warning-exists", "ci.json")
                         /\ status' = "ok"
        /\ \A p \in ProjectTargets \cup {NoPlatform} :
             DiagramFromCi(p, FALSE)
             => \A t \in ExistingDiagrams(diagrams) : diagrams'[t] = diagrams[t]
        /\ \A l \in TargetLists, f \in InitFlags :
             InitProject(l, f.diagram, f.ci, FALSE)
             => \A t \in ExistingDiagrams(diagrams) : diagrams'[t] = diagrams[t] ]_vars

\* the requested platforms of a diagram-from-ci run
Requested(p) == IF p # NoPlatform THEN <<p>> ELSE get_platforms_from_ci(ci)

\* the first requested platform at which the run raises (Len + 1: none): it
\* has no diagram file and the board table does not know it
AbortIndex(req) ==
    LET bad == {i \in 1..Len(req) :
                   ~diagrams[req[i]].exists /\ req[i] \notin BoardTargets}
    IN  IF bad = {} THEN Len(req) + 1
        ELSE CHOOSE i \in bad : \A j \in bad : i <= j

\* C10 as stated: in diagram-from-ci without --override a platform whose
\* diagram file exists is skipped with a warning, its file unchanged, and
\* every later platform without a diagram file gets its diagram written.
C10_SkipExistingAndContinue_AsStated ==
    [][ \A p \in ProjectTargets \cup {NoPlatform} :
          (DiagramFromCi(p, FALSE) /\ ci.exists)
          => \A i \in 1..Len(Requested(p)) :
               LET t == Requested(p)[i]
               IN  /\ diagrams[t].exists
                       => /\ diagrams'[t] = diagrams[t]
                          /\ Echoed(log', "warning-exists", DiagramFile(t))
                   /\ ( /\ ~diagrams[t].exists
                        /\ \E j \in 1..(i-1) : diagrams[Requested(p)[j]].exists )
                       => /\ diagrams'[t].exists
                          /\ Echoed(log', "saved", DiagramFile(t)) ]_vars

\* C10 amended: the same for the platforms requested before the first one
\* whose generation raises the unknown-platform error, where the run stops
\* with an error; from that platform on nothing is written and no warning is
\* echoed. Without such a platform the run ends without error.
C10_SkipExistingAndContinue ==
    [][ \A p \in ProjectTargets \cup {NoPlatform} :
          (DiagramFromCi(p, FALSE) /\ ci.exists)
          => \A i \in 1..Len(Requested(p)) :
               LET t == Requested(p)[i]
               IN  /\ diagrams[t].exists => diagrams'[t] = diagrams[t]
                   /\ i < AbortIndex(Requested(p))
                       => /\ diagrams[t].exists
                              => Echoed(log', "warning-exists", DiagramFile(t))
                          /\ ~diagrams[t].exists
                              => /\ diagrams'[t].exists
                                 /\ Echoed(log', "saved", DiagramFile(t))
                   /\ i >= AbortIndex(Requested(p))
                       => /\ diagrams'[t] = diagrams[t]
                          /\ ~Echoed(log', "warning-exists", DiagramFile(t))
                          /\ status' = "error"
                   /\ AbortIndex(Requested(p)) > Len(Requested(p))
                       => status' = "ok" ]_vars

C10_Witness ==
    /\ Len(log) >= 1 /\ log[1] = Banner("diagram-from-ci")
    /\ \E i, j \in 1..Len(log) :
          /\ i < j
          /\ log[i].kind = "warning-exists"
          /\ log[j].kind = "saved"
    /\ status = "ok"

----------------------------------------------------------------------------
(* More properties of the synchronisation (Spec) *)

\* list l with p put in after its first k elements
InsertAt(l, p, k) == SubSeq(l, 1, k) \o <<p>> \o SubSeq(l, k + 1, Len(l))

\* ci.json after generate_ci_from_diagram went through the platforms
CiAfter(platforms, override) ==
    IF platforms = <<>> THEN ci
    ELSE CiFromDiagrams(ci, platforms, diagrams, override).file

\* C11: a ci-from-diagram pass over a platform without a diagram file echoes
\* a warning, ends without error and writes ci.json, with the diagram entries
\* as before; and wherever the missing platform stands among the platforms
\* that have a diagram file, those get the same entries and the same place
\* among the targets as in a pass without the missing platform.
C11_MissingDiagramSkipped ==
    [][ \A p \in ProjectTargets, o \in BOOLEAN :
          ( /\ Len(log') >= 1 /\ log'[1] = Banner("ci-from-diagram")
            /\ ~diagrams[p].exists
            /\ \E l0 \in SeqsUpTo(ProjectTargets, MaxTargets) :
                   CiFromDiagram(p, o, l0) )
          => /\ Echoed(log', "warning-not-found", p)
             /\ status' = "ok"
             /\ CiRan(log') /\ ci'.exists
             /\ DiagramOverrides(ci') = DiagramOverrides(ci)
             /\ ToSet(Targets(ci')) = ToSet(Targets(ci)) \cup {p}
             /\ \A l \in SeqsUpTo(ProjectTargets, MaxTargets) :
                  IsListingOf(l, diagrams) =>
                    \A k \in 0..Len(l) :
                      LET with == CiAfter(InsertAt(l, p, k), o)
                          without == CiAfter(l, o)
                      IN  /\ DiagramOverrides(with) = DiagramOverrides(without)
                          /\ ToSet(Targets(with)) = ToSet(Targets(without)) \cup {p}
                          /\ SelectSeq(Targets(with), LAMBDA t : t # p)
                               = SelectSeq(Targets(without), LAMBDA t : t # p) ]_vars

C11_Witness ==
    /\ CiRan(log)
    /\ \E p \in ProjectTargets :
          /\ Echoed(log, "warning-not-found", p)
          /\ ~diagrams[p].exists
          /\ InList(p, Targets(ci))
    /\ \E t \in ExistingDiagrams(diagrams) : ~IsEmptyOverride(ExtractOverride(diagrams[t].data))
    /\ status = "ok"

----------------------------------------------------------------------------
(* generate_diagram on its own, over diagram files drawn by hand *)

\* a diagram.<platform>.json saved from the editor
HandDiagram(t) ==
    IF t \in DOMAIN target_to_boards
    THEN File(MergeOverride(create_default_diagram(t).diagram,
                            [parts |-> <<Led>>, connections |-> <<LedWire>>]))
    ELSE File([version |-> 1, author |-> "author", editor |-> "wokwi",
               parts |-> << [type |-> "wokwi-" \o t, id |-> "uno", top |-> 0,
                             left |-> 0, attrs |-> EmptyDict] >>,
               connections |-> <<>>, dependencies |-> EmptyDict])

InitCall ==
    /\ ci \in InitManifests
    /\ diagrams \in [ProjectTargets -> {NoFile} \cup {HandDiagram(t) : t \in ProjectTargets}]
    /\ \A t \in ProjectTargets : diagrams[t] \in {NoFile, HandDiagram(t)}
    /\ launchpad = NoFile
    /\ log = <<>>
    /\ status = "ok"
    /\ RtIdle
    /\ TabsIdle

\* self.generate_diagram(platform, override, ci_data.get("upload-binary", {}))
GenerateDiagramCall(platform, override) ==
    /\ LET r == generate_diagram(diagrams, platform, override, UploadBinary(ci))
       IN  /\ diagrams' = r.diagrams
           /\ log' = r.log
           /\ status' = IF r.raised THEN "error" ELSE "ok"
    /\ UNCHANGED <<ci, launchpad>>
    /\ UNCHANGED rtVars
    /\ UNCHANGED tabVars

NextCall ==
    \E platform \in ProjectTargets, override \in BOOLEAN :
        GenerateDiagramCall(platform, override)

SpecCall == InitCall /\ [][NextCall]_vars

\* C12 as stated: generate_diagram for a platform outside the board table
\* raises the unknown-platform error and creates or changes no diagram file.
C12_UnknownTargetFails_AsStated ==
    [][ \A t \in ProjectTargets \ BoardTargets, o \in BOOLEAN :
          GenerateDiagramCall(t, o)
          => status' = "error" /\ diagrams' = diagrams ]_vars

\* C12 amended: generate_diagram for a platform outside the board table
\* creates or changes no diagram file; it raises the unknown-platform error
\* unless the platform's diagram file exists and override is off, in which
\* case it echoes the file-exists warning and returns without error.
C12_UnknownTargetFails ==
    [][ \A t \in ProjectTargets \ BoardTargets, o \in BOOLEAN :
          GenerateDiagramCall(t, o)
          => /\ diagrams' = diagrams
             /\ IF diagrams[t].exists /\ ~o
                THEN /\ status' = "ok"
                     /\ log' = <<Echo("warning-exists", DiagramFile(t))>>
                ELSE status' = "error" /\ log' = <<>> ]_vars

C12_Witness ==
    /\ status = "error"
    /\ log = <<>>
    /\ \E t \in ProjectTargets \ BoardTargets : diagrams[t].exists

----------------------------------------------------------------------------
(* Properties of the launchpad.toml generator (SpecLaunchpad) *)

\* the targets of the manifest that have neither chipset shape
BadChipsetTargets(ci_file) ==
    {i \in 1..Len(Targets(ci_file)) :
        LET t == Targets(ci_file)[i]
        IN  ~(t = "esp32" \/ (Len(t) = 7 /\ SubSeq(t, 1, 5) = "esp32"))}

LaunchpadRan(lg) == Len(lg) >= 1 /\ lg[1] = Banner("launchpad-config")

\* C13 as stated: over a manifest with a target of neither chipset shape the
\* launchpad generation fails with the unknown-chipset error and leaves
\* launchpad.toml as it was, absent or with its prior content.
C13_UnknownChipsetAborts_AsStated ==
    [][ (LaunchpadRan(log') /\ BadChipsetTargets(ci) # {})
          => status' = "error" /\ launchpad' = launchpad ]_vars

\* C13 amended: over such a manifest launchpad.toml is left as it was, with
\* or without override; the generation fails with the unknown-chipset error
\* unless launchpad.toml exists and override is off, in which case it echoes
\* the file-exists warning and ends without error.
C13_UnknownChipsetAborts ==
    [][ \A sp \in StoragePrefixes, o \in BOOLEAN, readme \in BOOLEAN :
          (BadChipsetTargets(ci) # {} /\ LaunchpadConfigCmd(sp, o, readme))
          => /\ launchpad' = launchpad
             /\ IF launchpad.exists /\ ~o
                THEN /\ status' = "ok"
                     /\ Echoed(log', "warning-exists", "launchpad.toml")
                ELSE /\ status' = "error"
                     /\ log' = <<Banner("launchpad-config"), ErrorEcho>> ]_vars

C13_Witness ==
    /\ LaunchpadRan(log)
    /\ BadChipsetTargets(ci) # {}
    /\ Len(Targets(ci)) = 2 /\ BadChipsetTargets(ci) = {2}
    /\ status = "error"
    /\ launchpad = PriorLaunchpad

\* the lowercased chipset label of each target that has one
LowercaseLabel ==
    ("esp32" :> "esp32") @@ ("esp32c3" :> "esp32-c3") @@ ("esp32c6" :> "esp32-c6")
    @@ ("esp32h2" :> "esp32-h2") @@ ("esp32p4" :> "esp32-p4")
    @@ ("esp32s2" :> "esp32-s2") @@ ("esp32s3" :> "esp32-s3")

ExpectedImageLine(t) ==
    "image." \o LowercaseLabel[t] \o " = \"Blink-" \o LowercaseLabel[t] \o ".bin\""

\* the lines of launchpad.toml for project examples/Blink
ExpectedLines(targets, readme, description) ==
    << "esp_toml_version = 1.0",
       "",
       "firmware_images_url = \"https://storage.example/fw\"",
       "",
       "# Apps that you support and for which the binaries are available to publish.",
       "supported_apps = [\"Blink\"]",
       "" >>
    \o (IF readme
        THEN <<"config_readme_url = \"https://repo.example/tree/main/examples/Blink/README.md\"">>
        ELSE <<>>)
    \o [i \in 1..Len(targets) |-> ExpectedImageLine(targets[i])]
    \o (IF description THEN <<"description = \"Blink demo\"">> ELSE <<>>)

LaunchpadGenerated(lg) ==
    LaunchpadRan(lg) /\ Echoed(lg, "generated", "launchpad.toml")

\* C14: a generated launchpad.toml holds, in this order: the format version,
\* a blank line, firmware_images_url with the storage prefix stripped of its
\* trailing slashes, a blank line, the comment, supported_apps with the
\* project name, a blank line, config_readme_url only if README.md exists,
\* one image.<chipset> line per target in the order of the manifest's
\* targets with the lowercased chipset label, and a description line only if
\* the manifest has a description.
C14_LaunchpadLines ==
    [][ LaunchpadGenerated(log')
          => /\ launchpad'.exists
             /\ launchpad'.data =
                  JoinLines(ExpectedLines(Targets(ci),
                                          Echoed(log', "found-readme", ""),
                                          "description" \in DOMAIN UploadBinary(ci))) ]_vars

C14_Witness ==
    /\ LaunchpadGenerated(log)
    /\ Targets(ci) = <<"esp32", "esp32s3">>
    /\ Echoed(log, "found-readme", "")
    /\ "description" \in DOMAIN UploadBinary(ci)
    /\ launchpad.data =
         "esp_toml_version = 1.0\n\nfirmware_images_url = \"https://storage.example/fw\"\n\n"
         \o "# Apps that you support and for which the binaries are available to publish.\n"
         \o "supported_apps = [\"Blink\"]\n\n"
         \o "config_readme_url = \"https://repo.example/tree/main/examples/Blink/README.md\"\n"
         \o "image.esp32 = \"Blink-esp32.bin\"\nimage.esp32-s3 = \"Blink-esp32-s3.bin\"\n"
         \o "description = \"Blink demo\"\n"

\* C15: launchpad generation over a manifest without targets, with no
\* launchpad.toml in the way, reports a failure to its caller and writes no
\* file.
C15_EmptyTargetsFail ==
    [][ ( /\ LaunchpadRan(log')
          /\ ci.exists /\ Targets(ci) = <<>>
          /\ ~launchpad.exists )
          => status' = "error" /\ launchpad' = launchpad ]_vars

----------------------------------------------------------------------------
(* sphinx/directives.py: the tab composers.  A node of the document tree   *)
(* is a record with a kind; an attribute that is absent or None is "".     *)
(* The display options (width, height, loading, allowfullscreen, class)    *)
(* do not take part in the composition and are left out of the nodes.      *)

MaxBlocks == 3
MaxSerial == 1

\* a WokwiNode as WokwiDirective.run and the wokwi-toml directive build it
WokwiNode(tab_label, title, firmware, diagram) ==
    [kind |-> "wokwi", tab_label |-> tab_label, title |-> title,
     firmware |-> firmware, diagram |-> diagram,
     suppress_header |-> FALSE, from_toml |-> FALSE, toml_url |-> ""]

\* nodes.target, nodes.literal_block, and a node of any other class
TargetNode(names) == [kind |-> "target", names |-> names]
LiteralBlock(text, language) ==
    [kind |-> "literal_block", text |-> text, language |-> language]
Paragraph(text) == [kind |-> "paragraph", text |-> text]

SimDemo == WokwiNode("My Demo", "Wokwi simulation",
                     "https://cdn.example/fw/demo.bin", "")
SimBare == WokwiNode("", "", "", "")
SimCodeRunner == WokwiNode("", "Code Runner",
                           "https://cdn.example/fw/runner.bin",
                           "https://cdn.example/json/runner.json")
RefSetup == TargetNode(<<"setup">>)
RefLoop == TargetNode(<<"loop">>)
RefNameless == TargetNode(<<>>)
CodeUnit == LiteralBlock("void setup() {}", "arduino")
Prose == Paragraph("Press the button.")

BlockUnits ==
    {SimDemo, SimBare, SimCodeRunner, RefSetup, RefLoop, RefNameless,
     CodeUnit, Prose}

\* make_panel, lines 86-91
make_panel(label, content_nodes, active) ==
    [label |-> label, active |-> active, children |-> content_nodes]

\* line 98
SimulationLabel(cur, panels) ==
    IF cur.tab_label # "" THEN cur.tab_label
    ELSE IF cur.title # "" THEN cur.title
    ELSE "Wokwi " \o ToString(Len(panels) + 1)

\* line 120
CodeLabel(panels) ==
    "Code " \o ToString(Cardinality({k \in 1..Len(panels) :
                            StartsWith(panels[k].label, "Code")}) + 1)

\* lines 105-107: the first index from j on that does not hold a target
RECURSIVE SkipTargets(_, _)
SkipTargets(children, j) ==
    IF j <= Len(children) /\ children[j].kind = "target"
    THEN SkipTargets(children, j + 1)
    ELSE j

\* lines 109-112 and 135-138 and 156-159: the reporter's error messages
DanglingError(label) == [error |-> "no-following-content", target |-> label]
FirmwareError(idx) == [error |-> "missing-firmware", child |-> idx]
NoChildrenError == [error |-> "no-child-blocks"]

\* lines 93-125: the scan of the children from index i on
RECURSIVE ScanChildren(_, _, _, _)
ScanChildren(children, i, panels, errors) ==
    IF i > Len(children) THEN [panels |-> panels, errors |-> errors]
    ELSE LET cur == children[i]
             first == (Len(panels) = 0)
         IN  IF cur.kind = "wokwi"
             THEN ScanChildren(children, i + 1,
                      Append(panels, make_panel(SimulationLabel(cur, panels),
                                                <<cur>>, first)),
                      errors)
             ELSE IF cur.kind = "target" /\ cur.names # <<>>
             THEN LET label == cur.names[1]
                      j == SkipTargets(children, i + 1)
                  IN  IF j > Len(children)
                      THEN [panels |-> panels,
                            errors |-> Append(errors, DanglingError(label))]
                      ELSE ScanChildren(children, j + 1,
                               Append(panels, make_panel(label, <<children[j]>>,
                                                         first)),
                               errors)
             ELSE IF cur.kind = "literal_block"
             THEN ScanChildren(children, i + 1,
                      Append(panels, make_panel(CodeLabel(panels), <<cur>>,
                                                first)),
                      errors)
             ELSE ScanChildren(children, i + 1, panels, errors)

\* helpers.slug_lower: the character classes of its regular expressions
Digits == {"0", "1", "2", "3", "4", "5", "6", "7", "8", "9"}
WhiteChars == {" ", "\t", "\n"}
SlugChars == ToSet(LowerChars) \cup Digits \cup {"-"}

\* str.strip(chars), one end after the other
RECURSIVE LStripChars(_, _)
LStripChars(s, class) ==
    IF Len(s) > 0 /\ SubSeq(s, 1, 1) \in class
    THEN LStripChars(SubSeq(s, 2, Len(s)), class)
    ELSE s

RECURSIVE RStripChars(_, _)
RStripChars(s, class) ==
    IF Len(s) > 0 /\ SubSeq(s, Len(s), Len(s)) \in class
    THEN RStripChars(SubSeq(s, 1, Len(s) - 1), class)
    ELSE s

StripChars(s, class) == RStripChars(LStripChars(s, class), class)

\* a substitution of every character of the class by itself
RECURSIVE SubRuns_each(_, _, _)
SubRuns_each(s, class, to) ==
    IF Len(s) = 0 THEN ""
    ELSE (IF SubSeq(s, 1, 1) \in class THEN to ELSE SubSeq(s, 1, 1))
             \o SubRuns_each(SubSeq(s, 2, Len(s)), class, to)

\* re.sub(r"[class]+", to, s): every maximal run of the class becomes `to`
RECURSIVE SubRuns(_, _, _)
SubRuns(s, class, to) ==
    IF Len(s) = 0 THEN ""
    ELSE IF SubSeq(s, 1, 1) \in class
    THEN to \o SubRuns(LStripChars(s, class), class, to)
    ELSE SubSeq(s, 1, 1) \o SubRuns(SubSeq(s, 2, Len(s)), class, to)

\* re.sub(r"[^allowed]", to, s): every character outside the class becomes `to`
RECURSIVE SubOutside(_, _, _)
SubOutside(s, allowed, to) ==
    IF Len(s) = 0 THEN ""
    ELSE (IF SubSeq(s, 1, 1) \in allowed THEN SubSeq(s, 1, 1) ELSE to)
             \o SubOutside(SubSeq(s, 2, Len(s)), allowed, to)

\* slug_lower; a run of one hyphen is its own replacement, so "-{2,}" -> "-"
\* is SubRuns over the hyphen
slug_lower(name) ==
    LET s1 == SubRuns(Lower(StripChars(name, WhiteChars)), WhiteChars, "-")
        s2 == SubOutside(s1, SlugChars, "-")
    IN  StripChars(SubRuns(s2, {"-"}, "-"), {"-"})

\* a validation that returns at its first error
RECURSIVE FirmwareErrors_firstOnly(_, _)
FirmwareErrors_firstOnly(panels, idx) ==
    IF idx > Len(panels) THEN <<>>
    ELSE IF /\ Len(panels[idx].children) = 1
            /\ panels[idx].children[1].kind = "wokwi"
            /\ panels[idx].children[1].firmware = ""
    THEN <<[error |-> "missing-firmware", child |-> idx]>>
    ELSE FirmwareErrors_firstOnly(panels, idx + 1)

\* lines 131-143, the errors: one for each panel from idx on that wraps a
\* single WokwiNode without firmware
RECURSIVE FirmwareErrors(_, _)
FirmwareErrors(panels, idx) ==
    IF idx > Len(panels) THEN <<>>
    ELSE LET panel == panels[idx]
             missing == /\ Len(panel.children) = 1
                        /\ panel.children[1].kind = "wokwi"
                        /\ panel.children[1].firmware = ""
         IN  (IF missing THEN <<FirmwareError(idx)>> ELSE <<>>)
                 \o FirmwareErrors(panels, idx + 1)

\* lines 131-143, the panel afterwards: the diagram URL is filled in and the
\* inner header suppressed
ValidatedPanel(panel, idx, json_prefix_local) ==
    IF Len(panel.children) = 1 /\ panel.children[1].kind = "wokwi"
    THEN LET wn == panel.children[1]
             name == IF panel.label # "" THEN panel.label
                     ELSE IF wn.tab_label # "" THEN wn.tab_label
                     ELSE "wokwi-" \o ToString(idx)
             diagram == IF wn.diagram = "" /\ json_prefix_local # ""
                        THEN json_prefix_local \o "/diagram-"
                                 \o slug_lower(name) \o ".json"
                        ELSE wn.diagram
         IN  [panel EXCEPT !.children =
                 <<[wn EXCEPT !.diagram = diagram, !.suppress_header = TRUE]>>]
    ELSE panel

\* _collect_panels, lines 80-145
collect_panels(children, json_prefix, wokwi_json_prefix) ==
    LET scan == ScanChildren(children, 1, <<>>, <<>>)
        json_prefix_local ==
            RStripSlash(IF json_prefix # "" THEN json_prefix
                        ELSE wokwi_json_prefix)
    IN  [panels |-> [idx \in 1..Len(scan.panels) |->
                        ValidatedPanel(scan.panels[idx], idx, json_prefix_local)],
         errors |-> scan.errors \o FirmwareErrors(scan.panels, 1)]

\* a root id that ignores the serial number
RootId_fixed(serial) == "wokwi-tabs-0"

\* env.new_serialno("wokwi-tabs"): the value handed out, the counter is then
\* one more
RootId(serial) == "wokwi-tabs-" \o ToString(serial)

\* lines 190-197 and 213-217 (380-387 and 419-423 in the example directive):
\* the tab list and the panels, each panel recording its id
TabsRoot(panels, serial, variant, launchpad_href, chip_info) ==
    LET root_id == RootId(serial)
        panel_ids == [i \in 1..Len(panels) |->
                         root_id \o "-panel-" \o ToString(i - 1)]
    IN  [root_id |-> root_id,
         labels |-> [i \in 1..Len(panels) |->
                        IF panels[i].label # "" THEN panels[i].label
                        ELSE "Tab " \o ToString(i)],
         panel_ids |-> panel_ids,
         variant |-> variant,
         launchpad_href |-> launchpad_href,
         chip_info |-> chip_info,
         panels |-> [i \in 1..Len(panels) |->
                        [label |-> panels[i].label,
                         active |-> panels[i].active,
                         children |-> panels[i].children,
                         panel_id |-> panel_ids[i]]]]

\* wokwi_esp_launchpad_base of conf.py
LaunchpadBase == "https://espressif.github.io/esp-launchpad/"

\* lines 179-186: the first toml_url of the panels' WokwiNodes from a
\* wokwi-toml block
TomlNodes(panels) ==
    {i \in 1..Len(panels) :
        \E k \in 1..Len(panels[i].children) :
            /\ panels[i].children[k].kind = "wokwi"
            /\ panels[i].children[k].from_toml}

TomlUrl(panels) ==
    LET with_url == {i \in TomlNodes(panels) :
                        \E k \in 1..Len(panels[i].children) :
                            /\ panels[i].children[k].kind = "wokwi"
                            /\ panels[i].children[k].from_toml
                            /\ panels[i].children[k].toml_url # ""}
    IN  IF with_url = {} THEN ""
        ELSE LET i == CHOOSE x \in with_url : \A y \in with_url : x <= y
             IN  panels[i].children[1].toml_url

\* a run() that renders the panels it has and reports errors only when it
\* has none
WokwiTabsRun_partial(children, json_prefix, wokwi_json_prefix, serial) ==
    LET c == collect_panels(children, json_prefix, wokwi_json_prefix)
    IN  IF c.panels = <<>>
        THEN [result |-> "errors", errors |-> Append(c.errors, NoChildrenError),
              serial |-> serial]
        ELSE [result |-> "tabs",
              tabs |-> TabsRoot(c.panels, serial, "", "", <<>>),
              serial |-> serial + 1]

\* a run() that takes its serial number before it validates
WokwiTabsRun_serialFirst(children, json_prefix, wokwi_json_prefix, serial) ==
    LET c == collect_panels(children, json_prefix, wokwi_json_prefix)
        errors == IF c.panels = <<>> THEN Append(c.errors, NoChildrenError)
                  ELSE c.errors
    IN  IF errors # <<>>
        THEN [result |-> "errors", errors |-> errors, serial |-> serial + 1]
        ELSE [result |-> "tabs",
              tabs |-> TabsRoot(c.panels, serial, "", "", <<>>),
              serial |-> serial + 1]

\* WokwiTabsDirective.run, lines 147-223, over the children of its content
\* (none: the directive has no content): what it returns, and the counter
\* afterwards
WokwiTabsRun(children, json_prefix, wokwi_json_prefix, serial) ==
    IF children = <<>> THEN [result |-> "nothing", serial |-> serial]
    ELSE LET c == collect_panels(children, json_prefix, wokwi_json_prefix)
             errors == IF c.panels = <<>>
                       THEN Append(c.errors, NoChildrenError)
                       ELSE c.errors
             from_toml == TomlNodes(c.panels) # {}
             toml_url == TomlUrl(c.panels)
         IN  IF errors # <<>>
             THEN [result |-> "errors", errors |-> errors, serial |-> serial]
             ELSE [result |-> "tabs",
                   tabs |-> TabsRoot(c.panels, serial,
                                IF from_toml THEN "toml" ELSE "",
                                IF from_toml /\ toml_url # ""
                                THEN RStripSlash(LaunchpadBase)
                                         \o "/?flashConfigURL=" \o toml_url
                                ELSE "",
                                <<>>),
                   serial |-> serial + 1]

\* conf.py of the documentation of the example directive, and its argument
StorePrefix == "https://cdn.example/store"
ExamplePath == "examples/Blink"
InoFile == "Blink.ino"

\* _make_url, lines 259-270; urljoin of a prefix that ends in "/" and a
\* relative path without dots appends the path
make_url(prefix, path) ==
    IF path = "" THEN ""
    ELSE IF StartsWith(path, "http://") \/ StartsWith(path, "https://")
    THEN path
    ELSE IF prefix = "" THEN ""
    ELSE (IF SubSeq(prefix, Len(prefix), Len(prefix)) = "/" THEN prefix
          ELSE prefix \o "/") \o LStripChars(path, {"/"})

\* lines 317-341: the WokwiNode of one target
ExampleNode(target) ==
    LET gen_base_url == make_url(StorePrefix, ExamplePath \o "/.gen/")
        node == WokwiNode(Upper(target),
                          "Wokwi simulation - " \o Upper(target), \* a dash
                          make_url(gen_base_url, target \o ".bin"),
                          make_url(gen_base_url, "diagram-" \o target \o ".json"))
    IN  [node EXCEPT !.suppress_header = TRUE]

\* lines 344-375: the panels of the example, for the targets of ci.json and
\* the .ino file of the example directory ("none", "readable", "unreadable")
ExamplePanels(targets, ino) ==
    LET ino_files == IF ino = "none" THEN <<>> ELSE <<InoFile>>
        source == IF ino = "readable"
                  THEN <<make_panel(InoFile,
                             <<LiteralBlock("void setup() {}", "arduino")>>,
                             TRUE)>>
                  ELSE <<>>
    IN  source \o [i \in 1..Len(targets) |->
                      make_panel(ExampleNode(targets[i]).tab_label,
                                 <<ExampleNode(targets[i])>>,
                                 i = 1 /\ ino_files = <<>>)]

\* WokwiExampleDirective.run, lines 254-428
WokwiExampleRun(ci_file, ino, has_launchpad, serial) ==
    IF ~ci_file.exists
    THEN [result |-> "errors", errors |-> <<[error |-> "ci-not-found"]>>,
          serial |-> serial]
    ELSE LET targets == Get(Get(ci_file.data, "upload-binary", EmptyDict),
                            "targets", <<>>)
             gen_base_url == make_url(StorePrefix, ExamplePath \o "/.gen/")
         IN  IF targets = <<>>
             THEN [result |-> "errors", errors |-> <<[error |-> "no-targets"]>>,
                   serial |-> serial]
             ELSE [result |-> "tabs",
                   tabs |-> TabsRoot(ExamplePanels(targets, ino), serial,
                                "example",
                                IF has_launchpad
                                THEN RStripSlash(LaunchpadBase)
                                         \o "/?flashConfigURL="
                                         \o make_url(gen_base_url, "launchpad.toml")
                                ELSE RStripSlash(LaunchpadBase),
                                [i \in 1..Len(targets) |-> Lower(targets[i])]),
                   serial |-> serial + 1]

----------------------------------------------------------------------------
(* The specification of the tab composers: a directive of a document whose *)
(* serial counter stands at tb_serial is run                               *)

ExampleTargets == {"esp32", "esp32s3"}
JsonPrefixes == {"", "https://cdn.example/json/"}
ConfigJsonPrefixes == {"", "https://cdn.example/default"}

ExampleManifests ==
    {NoFile, File(("fqbn_append" :> "PartitionScheme=huge_app"))}
    \cup {File(("upload-binary" :> [targets |-> l])) :
            l \in SeqsUpTo(ExampleTargets, MaxTargets)}

\* docs_embed_github_base_url and docs_embed_github_branch of conf.py: both
\* set, or neither
GithubConfigs ==
    {[base_url |-> "", branch |-> ""],
     [base_url |-> "https://github.com/espressif/arduino-esp32",
      branch |-> "master"]}

TabsInputs ==
    {[composer |-> "wokwi-tabs", children |-> b, json_prefix |-> p,
      wokwi_json_prefix |-> d, github |-> g] :
        b \in SeqsUpTo(BlockUnits, MaxBlocks), p \in JsonPrefixes,
        d \in ConfigJsonPrefixes, g \in GithubConfigs}

\* has_launchpad: a launchpad.toml lies in the example directory itself
ExampleInputs ==
    {[composer |-> "wokwi-example", ino |-> f, has_launchpad |-> h,
      github |-> g] :
        f \in {"none", "readable", "unreadable"}, h \in BOOLEAN,
        g \in GithubConfigs}

InitTabs ==
    /\ \/ tb_in \in TabsInputs /\ ci = NoFile /\ launchpad = NoFile
       \/ /\ tb_in \in ExampleInputs
          /\ ci \in ExampleManifests
          /\ launchpad \in {NoFile, PriorLaunchpad}
    /\ diagrams = [t \in ProjectTargets |-> NoFile]
    /\ log = <<>>
    /\ status = "ok"
    /\ RtIdle
    /\ tb_pc = "pending"
    /\ tb_out = <<>>
    /\ tb_serial \in 0..MaxSerial
    /\ tb_doc = <<>>

TabsDirective ==
    /\ tb_pc = "pending"
    /\ tb_in.composer = "wokwi-tabs"
    /\ LET r == WokwiTabsRun(tb_in.children, tb_in.json_prefix,
                             tb_in.wokwi_json_prefix, tb_serial)
       IN  /\ tb_out' = r
           /\ tb_serial' = r.serial
           /\ tb_doc' = Append(tb_doc, r)
    /\ tb_pc' = "done"
    /\ UNCHANGED tb_in
    /\ UNCHANGED fsVars
    /\ UNCHANGED rtVars

ExampleDirective ==
    /\ tb_pc = "pending"
    /\ tb_in.composer = "wokwi-example"
    /\ LET r == WokwiExampleRun(ci, tb_in.ino, tb_in.has_launchpad, tb_serial)
       IN  /\ tb_out' = r
           /\ tb_serial' = r.serial
           /\ tb_doc' = Append(tb_doc, r)
    /\ tb_pc' = "done"
    /\ UNCHANGED tb_in
    /\ UNCHANGED fsVars
    /\ UNCHANGED rtVars

NextTabs == TabsDirective \/ ExampleDirective

SpecTabs == InitTabs /\ [][NextTabs]_vars

----------------------------------------------------------------------------
(* Properties of the tab composers *)

\* the directive has been run by the block-list composer / the example composer
TabsDone == tb_pc = "done" /\ tb_in.composer = "wokwi-tabs"
ExampleDone == tb_pc = "done" /\ tb_in.composer = "wokwi-example"
Composed == tb_pc = "done" /\ tb_out.result = "tabs"

\* the panels the scan of the directive's children produced
Produced == ScanChildren(tb_in.children, 1, <<>>, <<>>).panels

\* the positions (from 1) of the produced panels that wrap a single Simulation
\* without firmware
BarePanels ==
    {idx \in 1..Len(Produced) :
        /\ Len(Produced[idx].children) = 1
        /\ Produced[idx].children[1].kind = "wokwi"
        /\ Produced[idx].children[1].firmware = ""}

\* the members of a set of numbers in ascending order
Ascending(S) ==
    CHOOSE f \in [1..Cardinality(S) -> S] :
        \A i, j \in 1..Cardinality(S) : i < j => f[i] < f[j]

IsFirmwareError(e) == e.error = "missing-firmware"

\* C16: when a produced panel wraps a single Simulation without firmware, the
\* block-list composer returns errors and no tab model, and its
\* missing-firmware errors are one for each such panel, naming the panel's
\* position counted from 1; two Simulations without firmware, alone, give
\* exactly two errors.
C16_AllFirmwareErrors ==
    TabsDone =>
        /\ BarePanels # {} =>
            /\ tb_out.result = "errors"
            /\ "tabs" \notin DOMAIN tb_out
            /\ SelectSeq(tb_out.errors, IsFirmwareError)
                   = [k \in 1..Cardinality(BarePanels) |->
                         FirmwareError(Ascending(BarePanels)[k])]
        /\ tb_in.children = <<SimBare, SimBare>> =>
            /\ tb_out.result = "errors"
            /\ tb_out.errors = <<FirmwareError(1), FirmwareError(2)>>

C16_Witness ==
    /\ TabsDone
    /\ tb_in.children = <<RefSetup, SimBare, SimBare>>
    /\ tb_out.result = "errors"
    /\ tb_out.errors = <<FirmwareError(1), FirmwareError(2)>>

\* references, and the units of a block list by what the scan makes of them
IsRef(u) == u.kind = "target"
Named(u) == IsRef(u) /\ u.names # <<>>

\* where the run of references that ends just before position j starts
\* (j itself when no reference precedes j)
RunStart(children, j) ==
    CHOOSE s \in 1..j :
        /\ \A m \in s..(j - 1) : IsRef(children[m])
        /\ s = 1 \/ ~IsRef(children[s - 1])

\* unit j is the content of a reference: it follows a run of references
\* that holds a named one
Paired(children, j) ==
    /\ ~IsRef(children[j])
    /\ \E k \in RunStart(children, j)..(j - 1) : Named(children[k])

\* unit j is a Code unit scanned on its own
OwnCode(children, j) ==
    children[j].kind = "literal_block" /\ ~Paired(children, j)

\* unit j becomes the content of a panel, and the position of that panel
MakesPanel(children, j) ==
    /\ ~IsRef(children[j])
    /\ Paired(children, j) \/ children[j].kind \in {"wokwi", "literal_block"}

PanelOf(children, j) == Cardinality({k \in 1..j : MakesPanel(children, k)})

\* C17: a content unit that follows a run of two or more consecutive
\* (named) references becomes the content of exactly one panel, and that
\* panel's label is the name of the last reference of the run.
C17_LastReferenceWins ==
    TabsDone =>
        \A j \in 1..Len(tb_in.children) :
            LET s == RunStart(tb_in.children, j)
            IN  /\ ~IsRef(tb_in.children[j])
                /\ j - s >= 2
                /\ \A k \in s..(j - 1) : Named(tb_in.children[k])
                => /\ Len(Produced) = Cardinality({k \in 1..Len(tb_in.children) :
                                           MakesPanel(tb_in.children, k)})
                   /\ Produced[PanelOf(tb_in.children, j)].children
                          = <<tb_in.children[j]>>
                   /\ Produced[PanelOf(tb_in.children, j)].label
                          = tb_in.children[j - 1].names[1]

\* C18: a Code unit scanned on its own becomes a panel labelled "Code N",
\* N being one more than the number of Code units scanned on their own
\* before it, whatever the labels of the other panels before it are.
C18_CodeOrdinal ==
    TabsDone =>
        \A j \in 1..Len(tb_in.children) :
            OwnCode(tb_in.children, j) =>
                /\ Produced[PanelOf(tb_in.children, j)].children
                       = <<tb_in.children[j]>>
                /\ Produced[PanelOf(tb_in.children, j)].label
                       = "Code " \o ToString(1 + Cardinality(
                             {k \in 1..(j - 1) : OwnCode(tb_in.children, k)}))

IsDanglingError(e) == e.error = "no-following-content"

\* the named references of the run of references the block list ends with
TrailingNamed(children) ==
    {k \in RunStart(children, Len(children) + 1)..Len(children) :
        Named(children[k])}

\* C19: when the block list ends with a run of references that holds a named
\* one and no content follows, the block-list composer returns errors and no
\* tab model, whatever panels the earlier blocks formed; the scan stops at
\* the run: there is exactly one no-following-content error, and it names
\* the first named reference of the run.
C19_DanglingReference ==
    TabsDone /\ TrailingNamed(tb_in.children) # {} =>
        LET first == CHOOSE k \in TrailingNamed(tb_in.children) :
                         \A m \in TrailingNamed(tb_in.children) : k <= m
        IN  /\ tb_out.result = "errors"
            /\ "tabs" \notin DOMAIN tb_out
            /\ SelectSeq(tb_out.errors, IsDanglingError)
                   = <<DanglingError(tb_in.children[first].names[1])>>

C19_Witness ==
    /\ TabsDone
    /\ tb_in.children = <<SimDemo, RefSetup, RefLoop>>
    /\ Len(Produced) = 1
    /\ tb_out.result = "errors"
    /\ tb_out.errors = <<DanglingError("setup")>>

\* C20: every composed tab model, of either composer, has exactly one active
\* panel, and it is the first panel.
C20_OneActiveFirst ==
    Composed =>
        /\ Len(tb_out.tabs.panels) >= 1
        /\ \A i \in 1..Len(tb_out.tabs.panels) :
               tb_out.tabs.panels[i].active <=> (i = 1)

----------------------------------------------------------------------------
(* The specification of a document: its directives are run one after the   *)
(* other against the document's serial counter, which starts at 0          *)

MaxDirectives == 3

DocBlockLists ==
    {<<SimDemo, CodeUnit>>, <<CodeUnit>>, <<SimBare>>, <<SimDemo, RefSetup>>,
     <<Prose>>, <<>>}

DocInputs ==
    {[composer |-> "wokwi-tabs", children |-> b, json_prefix |-> "",
      wokwi_json_prefix |-> ""] : b \in DocBlockLists}
    \cup {[composer |-> "wokwi-example", ino |-> f, has_launchpad |-> FALSE] :
            f \in {"none", "readable", "unreadable"}}

InitDoc ==
    /\ ci \in ExampleManifests
    /\ diagrams = [t \in ProjectTargets |-> NoFile]
    /\ launchpad = NoFile
    /\ log = <<>>
    /\ status = "ok"
    /\ RtIdle
    /\ TabsIdle

\* the next directive of the document is a wokwi-tabs directive
DocTabsDirective(input) ==
    /\ Len(tb_doc) < MaxDirectives
    /\ input.composer = "wokwi-tabs"
    /\ LET r == WokwiTabsRun(input.children, input.json_prefix,
                             input.wokwi_json_prefix, tb_serial)
       IN  /\ tb_out' = r
           /\ tb_serial' = r.serial
           /\ tb_doc' = Append(tb_doc, r)
    /\ tb_in' = input
    /\ tb_pc' = "done"
    /\ UNCHANGED fsVars
    /\ UNCHANGED rtVars

\* the next directive of the document is a wokwi-example directive
DocExampleDirective(input) ==
    /\ Len(tb_doc) < MaxDirectives
    /\ input.composer = "wokwi-example"
    /\ LET r == WokwiExampleRun(ci, input.ino, input.has_launchpad, tb_serial)
       IN  /\ tb_out' = r
           /\ tb_serial' = r.serial
           /\ tb_doc' = Append(tb_doc, r)
    /\ tb_in' = input
    /\ tb_pc' = "done"
    /\ UNCHANGED fsVars
    /\ UNCHANGED rtVars

NextDoc ==
    \E input \in DocInputs :
        DocTabsDirective(input) \/ DocExampleDirective(input)

SpecDoc == InitDoc /\ [][NextDoc]_vars

\* the positions in the document of the compositions that returned a model
Successes == {k \in 1..Len(tb_doc) : tb_doc[k].result = "tabs"}

\* the ids of a document: (k, root id) and (k, i, panel id)
RootIds == {<<k, tb_doc[k].tabs.root_id>> : k \in Successes}
PanelIds ==
    UNION {{<<k, i, tb_doc[k].tabs.panels[i].panel_id>> :
                i \in 1..Len(tb_doc[k].tabs.panels)} : k \in Successes}

\* C21: in a document, the k-th composition that succeeds (of either
\* composer) has the root id "wokwi-tabs-" + the serial number it took, its
\* panel i (counted from 0) has and records the id rootId + "-panel-" + i,
\* and all root ids and all panel ids of the document are pairwise distinct.
C21_Identifiers ==
    /\ \A k \in Successes :
        LET tabs == tb_doc[k].tabs
            taken == tb_doc[k].serial - 1
        IN  /\ tabs.root_id = "wokwi-tabs-" \o ToString(taken)
            /\ Len(tabs.panel_ids) = Len(tabs.panels)
            /\ \A i \in 1..Len(tabs.panels) :
                /\ tabs.panel_ids[i]
                       = tabs.root_id \o "-panel-" \o ToString(i - 1)
                /\ tabs.panels[i].panel_id = tabs.panel_ids[i]
    /\ \A a, b \in RootIds : a[2] = b[2] => a = b
    /\ \A a, b \in PanelIds : a[3] = b[3] => a = b

C21_Witness ==
    /\ Len(tb_doc) = 3
    /\ tb_doc[1].result = "tabs" /\ tb_doc[3].result = "tabs"
    /\ tb_doc[2].result = "tabs"
    /\ tb_in.composer = "wokwi-example"
    /\ Len(tb_doc[1].tabs.panels) = 2
    /\ Len(tb_doc[3].tabs.panels) >= 2
    /\ tb_doc[3].tabs.panels[2].panel_id = "wokwi-tabs-2-panel-1"

\* C29: a composition that returns errors leaves the document's serial
\* counter as it was, so the compositions of a document that succeed have
\* the root ids wokwi-tabs-0, wokwi-tabs-1, ... in order, whatever failed
\* compositions lie between them.
C29_SerialOnlyOnSuccess ==
    /\ tb_serial = Cardinality(Successes)
    /\ \A k \in 1..Len(tb_doc) :
        LET before == Cardinality({m \in Successes : m < k})
        IN  IF tb_doc[k].result = "tabs"
            THEN /\ tb_doc[k].tabs.root_id = "wokwi-tabs-" \o ToString(before)
                 /\ tb_doc[k].serial = before + 1
            ELSE tb_doc[k].serial = before

C29_Witness ==
    /\ Len(tb_doc) = 3
    /\ tb_doc[1].result = "tabs" /\ tb_doc[1].tabs.root_id = "wokwi-tabs-0"
    /\ tb_doc[2].result = "errors" /\ tb_doc[2].errors = <<FirmwareError(1)>>
    /\ tb_doc[3].result = "tabs" /\ tb_doc[3].tabs.root_id = "wokwi-tabs-1"
    /\ tb_in.composer = "wokwi-tabs"

\* the JSON prefix in force for the directive: the per-call one if given,
\* else the context-wide default
ConfiguredPrefix ==
    IF tb_in.json_prefix # "" THEN tb_in.json_prefix
    ELSE tb_in.wokwi_json_prefix

\* the slugs of the labels a Simulation with firmware and without diagram
\* gets in the block lists: its own tab name, or the name of its reference
ExpectedSlug == ("My Demo" :> "my-demo") @@ ("setup" :> "setup") @@ ("loop" :> "loop")

\* the panels of the composed model whose Simulation came without a diagram
Backfillable ==
    {i \in 1..Len(Produced) :
        /\ Len(Produced[i].children) = 1
        /\ Produced[i].children[1].kind = "wokwi"
        /\ Produced[i].children[1].diagram = ""}

\* C22 as stated: the diagram URL of such a panel's Simulation is the
\* configured prefix + "/diagram-" + slug(panel label) + ".json", and stays
\* absent when no prefix is configured.
C22_Backfill_AsStated ==
    TabsDone /\ Composed =>
        \A i \in Backfillable :
            tb_out.tabs.panels[i].children[1].diagram =
                IF ConfiguredPrefix = "" THEN ""
                ELSE ConfiguredPrefix \o "/diagram-"
                         \o ExpectedSlug[tb_out.tabs.panels[i].label] \o ".json"

\* C22 amended: the diagram URL of such a panel's Simulation is the
\* configured prefix without its trailing slashes + "/diagram-" +
\* slug(panel label) + ".json"; it stays absent when no prefix is configured,
\* and a Simulation that came with a diagram keeps it.
C22_Backfill ==
    TabsDone /\ Composed =>
        \A i \in 1..Len(Produced) :
            Len(Produced[i].children) = 1 /\ Produced[i].children[1].kind = "wokwi"
            => tb_out.tabs.panels[i].children[1].diagram =
                IF i \notin Backfillable THEN Produced[i].children[1].diagram
                ELSE IF ConfiguredPrefix = "" THEN ""
                ELSE IF tb_in.json_prefix # ""
                THEN "https://cdn.example/json/diagram-"
                         \o ExpectedSlug[tb_out.tabs.panels[i].label] \o ".json"
                ELSE "https://cdn.example/default/diagram-"
                         \o ExpectedSlug[tb_out.tabs.panels[i].label] \o ".json"

C22_Witness ==
    /\ TabsDone /\ Composed
    /\ tb_in.children = <<SimDemo, RefLoop, SimDemo>>
    /\ tb_in.json_prefix = "https://cdn.example/json/"
    /\ tb_in.wokwi_json_prefix = "https://cdn.example/default"
    /\ tb_out.tabs.panels[1].children[1].diagram
           = "https://cdn.example/json/diagram-my-demo.json"
    /\ tb_out.tabs.panels[2].children[1].diagram
           = "https://cdn.example/json/diagram-loop.json"

----------------------------------------------------------------------------
(* The specification of slug_lower: a name is slugged, and the slug is     *)
(* slugged again                                                           *)

MaxSlugLen == 4

\* a letter of each case, a digit, the hyphen, two kinds of whitespace and
\* two characters that are none of these
NameChars == {"a", "Z", "7", "-", " ", "\t", "_", "!"}

RECURSIVE StringsUpTo(_)
StringsUpTo(n) ==
    IF n = 0 THEN {""}
    ELSE LET shorter == StringsUpTo(n - 1)
         IN  shorter \cup {s \o c : s \in shorter, c \in NameChars}

InitSlug ==
    /\ FsIdle
    /\ RtIdle
    /\ tb_pc = "name"
    /\ tb_in \in StringsUpTo(MaxSlugLen)
    /\ tb_out = <<>>
    /\ tb_serial = 0
    /\ tb_doc = <<>>

\* slug = slug_lower(name)
SlugName ==
    /\ tb_pc = "name"
    /\ tb_out' = <<slug_lower(tb_in)>>
    /\ tb_pc' = "slug"
    /\ UNCHANGED <<tb_in, tb_serial, tb_doc>>
    /\ UNCHANGED fsVars
    /\ UNCHANGED rtVars

\* slug_lower(slug)
SlugAgain ==
    /\ tb_pc = "slug"
    /\ tb_out' = Append(tb_out, slug_lower(tb_out[1]))
    /\ tb_pc' = "slug-of-slug"
    /\ UNCHANGED <<tb_in, tb_serial, tb_doc>>
    /\ UNCHANGED fsVars
    /\ UNCHANGED rtVars

NextSlug == SlugName \/ SlugAgain

SpecSlug == InitSlug /\ [][NextSlug]_vars

\* the characters of a string
Chars(s) == [i \in 1..Len(s) |-> SubSeq(s, i, i)]

\* C23: the slug of a slug is that slug, and a slug holds only characters
\* of [a-z0-9-], no two adjacent hyphens, and no hyphen at either end.
C23_SlugIdempotent ==
    tb_pc = "slug-of-slug" =>
        LET slug == tb_out[1]
            c == Chars(slug)
        IN  /\ tb_out[2] = slug
            /\ \A i \in 1..Len(c) :
                   c[i] \in {"a", "b", "c", "d", "e", "f", "g", "h", "i", "j",
                             "k", "l", "m", "n", "o", "p", "q", "r", "s", "t",
                             "u", "v", "w", "x", "y", "z", "0", "1", "2", "3",
                             "4", "5", "6", "7", "8", "9", "-"}
            /\ \A i \in 1..(Len(c) - 1) : ~(c[i] = "-" /\ c[i + 1] = "-")
            /\ Len(c) > 0 => c[1] # "-" /\ c[Len(c)] # "-"

C23_Witness ==
    /\ tb_pc = "slug-of-slug"
    /\ tb_in = " Z_a"
    /\ tb_out = <<"z-a", "z-a">>

\* html.visit_tablist_html reads the links of the tab list with node.get
LaunchpadLink(tabs) == Get(tabs, "launchpad_href", "")
SourceLink(tabs) == Get(tabs, "github_href", "")

C25_SourceLink ==
    Composed /\ tb_in.github.base_url # "" /\ tb_in.github.branch # ""
        => SourceLink(tb_out.tabs) # ""

----------------------------------------------------------------------------
(* Further properties of the file-system commands *)

\* C26: when init-project with --diagram and --ci completes, ci.json exists
\* and its targets include every requested platform.
C26_InitProjectCi ==
    [][ /\ Len(log') >= 1
        /\ log'[1] = Banner("init-project")
        /\ status' = "ok"
        => \A l \in TargetLists, o \in BOOLEAN :
               InitProject(l, TRUE, TRUE, o)
               => /\ ci'.exists
                  /\ ToSet(l) \subseteq ToSet(Targets(ci')) ]_vars

\* C27: after a ci-from-diagram run that found the diagram of a processed
\* target to hold no parts, connections or dependencies of the author, the
\* target is in the manifest's targets and the manifest has no diagram entry
\* for it, whatever entry it had before.
C27_EmptyOverrideDropsEntry ==
    [][ CiRan(log') =>
          \A t \in ProjectTargets :
              Echoed(log', "skipping-empty", t)
              => /\ InList(t, Targets(ci'))
                 /\ t \notin DOMAIN DiagramOverrides(ci') ]_vars

C30_WitnessAfter ==
    /\ Len(log) >= 1 /\ log[1] = Banner("diagram-from-ci")
    /\ status = "error"
    /\ Targets(ci) = <<"arduino-uno", "esp32">>
    /\ ~diagrams["esp32"].exists

\* one sync cycle over target t: diagram-from-ci --platform t --override, then
\* ci-from-diagram --platform t
SyncCycle(project, t) ==
    LET dg == GenerateDiagrams(project.diagrams, <<t>>, TRUE,
                  Get(project.ci.data, "upload-binary", EmptyDict), <<>>).diagrams
    IN  [ci |-> CiFromDiagrams(project.ci, <<t>>, dg, FALSE).file,
         diagrams |-> dg]

\* C28: after a ci-from-diagram pass over a board target that has a diagram,
\* a second sync cycle (diagram-from-ci with --override, then ci-from-diagram)
\* leaves ci.json and the diagram as the first cycle left them.
C28_CycleIdempotent ==
    \A t \in BoardTargets \cap ProjectTargets :
        (CiRan(log) /\ t \in CiProcessed(log) /\ diagrams[t].exists)
        => LET first == SyncCycle([ci |-> ci, diagrams |-> diagrams], t)
           IN  SyncCycle(first, t) = first

\* the same for the targets whose serial pins are RX and TX: holds
C28_ExceptP4 ==
    \A t \in (BoardTargets \cap ProjectTargets) \ {"esp32p4"} :
        (CiRan(log) /\ t \in CiProcessed(log) /\ diagrams[t].exists)
        => LET first == SyncCycle([ci |-> ci, diagrams |-> diagrams], t)
           IN  SyncCycle(first, t) = first

====
